---- MODULE Spec2Model ----
(***************************************************************************)
(* Model of the alerting engine of the WiFi analyzer                       *)
(* (wifi-heatmap-dashboard/alerts.py) over the wifi_scans sample store,    *)
(* of the request threads of the web application (app.py) and of the       *)
(* collector's scanning loop and control server (wifi-collector/scanner.py).*)
(*                                                                         *)
(* Time is counted in minutes.  Timestamps are "%Y-%m-%d %H:%M:%S" strings *)
(* in the code; the format is fixed-width, so the string comparisons of    *)
(* the code order timestamps as the instants they denote, and a timestamp  *)
(* is modelled by the integer instant.                                     *)
(*                                                                         *)
(* Averages are exact rationals [num, den] (den > 0; den = 0 stands for    *)
(* the NULL of an AVG over no rows).  dBm values stored in alerts are in   *)
(* tenths of a dBm (round(x, 1) * 10).  A handler reads the clock once:    *)
(* the datetime.now() calls of one call of a rule fall in the same second. *)
(***************************************************************************)
EXTENDS Integers, Sequences, FiniteSets, Bags, TLC

VARIABLES now, scans, alerts, file, last, passes, collector

vars == <<now, scans, alerts, file, last, passes, collector>>

(* ------------------------------ bounds --------------------------------- *)

MaxScans == 2

MaxAlerts == 2

\* Rooms and SSIDs, each listed in ascending (string) order.
RoomSeq == <<"Kitchen">>

SsidSeq == <<"Guest", "HomeNet">>

Rooms == {RoomSeq[i] : i \in 1..Len(RoomSeq)}

Ssids == {SsidSeq[i] : i \in 1..Len(SsidSeq)}

\* The (room, ssid) pairs in the order the store returns grouped rows.
PairSeq ==
    [k \in 1..(Len(RoomSeq) * Len(SsidSeq)) |->
        <<RoomSeq[((k - 1) \div Len(SsidSeq)) + 1],
          SsidSeq[((k - 1) % Len(SsidSeq)) + 1]>>]

\* Stored signal values a scan may carry, per SSID: percent-scaled values
\* (0..100) and an already dBm-scaled one (< 0).
SignalsOf(ssid) ==
    IF ssid = "HomeNet" THEN {-85, 0, 20, 40, 60} ELSE {20}

\* Instants at which operations run, and timestamps a stored row may carry.
\* Relative to an instant of Instants the rows are aged -30 (stamped ahead
\* of the evaluator's clock), 0 (stamped now), 30, 60, 90, 120 (the window
\* boundaries and interiors) and 150 (older than every window).
Instants == {120, 150}

TimeGrid == {0, 60, 90, 150}

HourArgs == {0, 1}

(* ------------------------- program constants --------------------------- *)

SIGNAL_DEGRADATION_THRESHOLD == -10

POOR_SIGNAL_THRESHOLD == -80

NETWORK_DISAPPEARANCE_MINUTES == 30

\* SQL NULL / Python None fetched for an AVG over no rows.
NullAvg == [num |-> 0, den |-> 0]

\* Placeholder argument of operations that take none.
NoArg == <<>>

(* -------------------------- rational helpers --------------------------- *)

Rat(n, d) == [num |-> n, den |-> d]

RatSub(x, y) == Rat(x.num * y.den - y.num * x.den, x.den * y.den)

RatLess(x, k) == x.num < k * x.den

\* Python round(x, 1), in tenths: nearest tenth, ties to the even tenth.
\* (A tie of avg/2 - 100 over at most four rows is a multiple of 0.25, which
\* a float holds exactly, so the float rounds as the rational does.)
Round1(x) ==
    LET n == 10 * x.num
        q == n \div x.den
        r == n % x.den
    IN  IF 2 * r < x.den THEN q
        ELSE IF 2 * r > x.den THEN q + 1
        ELSE IF q % 2 = 0 THEN q ELSE q + 1

(* ---------------------------- sample store ----------------------------- *)

Row(ts, room, ssid, signal) ==
    [timestamp |-> ts, room |-> room, ssid |-> ssid, signal |-> signal]

RECURSIVE SumSignal(_)
SumSignal(S) ==
    IF S = {} THEN 0
    ELSE LET r == CHOOSE x \in S : TRUE
         IN  r.signal * CopiesIn(r, scans) + SumSignal(S \ {r})

RECURSIVE CountRows(_)
CountRows(S) ==
    IF S = {} THEN 0
    ELSE LET r == CHOOSE x \in S : TRUE
         IN  CopiesIn(r, scans) + CountRows(S \ {r})

\* SQL AVG(signal) over the rows S of the table: NULL when no row matches.
AvgSignal(S) ==
    IF S = {} THEN NullAvg ELSE Rat(SumSignal(S), CountRows(S))

\* Variant: the average is not halved.
AvgToDbm_NoHalving(a) == Rat(a.num - 100 * a.den, a.den)

\* avg / 2.0 - 100.0
AvgToDbm(a) == Rat(a.num - 200 * a.den, 2 * a.den)

\* Python truthiness of a fetched AVG: None and 0.0 are both false.
Truthy(a) == a # NullAvg /\ a.num # 0

(* --------------------- per-measurement conversion ---------------------- *)

\* analyzer.load_all_data: x / 2.0 - 100.0 if x > 0 else x, in half-dBm.
SignalDbmHalves(x) == IF x > 0 THEN x - 200 ELSE 2 * x

RECURSIVE SumDbmHalves(_)
SumDbmHalves(S) ==
    IF S = {} THEN 0
    ELSE LET r == CHOOSE x \in S : TRUE
         IN  SignalDbmHalves(r.signal) * CopiesIn(r, scans)
             + SumDbmHalves(S \ {r})

\* Unweighted mean of the per-measurement dBm values of the rows S (S # {}).
MeanOfConverted(S) == Rat(SumDbmHalves(S), 2 * CountRows(S))

(* ------------------------------ ledger --------------------------------- *)

Alert(type, message, severity, data) ==
    [timestamp |-> now, type |-> type, message |-> message,
     severity |-> severity, data |-> data]

\* Variant: an alert whose (type, room, ssid) is already in the ledger is
\* neither appended nor returned again.
AddAlerts_Dedup(ledger, new) ==
    LET fresh == SelectSeq(new, LAMBDA a :
                    ~ \E i \in DOMAIN ledger :
                        /\ ledger[i].type = a.type
                        /\ ledger[i].data.room = a.data.room
                        /\ ledger[i].data.ssid = a.data.ssid)
    IN  [ledger |-> ledger \o fresh, returned |-> fresh]

\* Variant: the caller is handed the whole ledger.
AddAlerts_ReturnLedger(ledger, new) ==
    [ledger |-> ledger \o new, returned |-> ledger \o new]

\* A rule's result is the sequence of alerts it returns; for
\* check_signal_degradation the empty sequence stands for None.
\* add_alert for each alert of a batch, in order: the alert is appended to
\* the ledger, the whole ledger is rewritten to the file, and the alert is
\* returned to the rule, which collects it in its result.
AddAlerts(ledger, new) == [ledger |-> ledger \o new, returned |-> new]

(* ----------------------------- alerts file ---------------------------- *)

\* A JSON object: the set of its <<key, value>> members.
JsonObject(rec) == {<<k, rec[k]>> : k \in DOMAIN rec}

FromJsonObject(obj) ==
    [k \in {p[1] : p \in obj} |-> (CHOOSE p \in obj : p[1] = k)[2]]

\* Variant: only the newest alert is written.
SaveAlerts_NewestOnly(ledger) ==
    [i \in (IF ledger = <<>> THEN {} ELSE {1}) |->
        JsonObject([ledger[Len(ledger)] EXCEPT
                       !.data = JsonObject(ledger[Len(ledger)].data)])]

\* save_alerts: json.dump of the whole ledger, an array of objects whose
\* "data" member is an object itself.  The file is rewritten from scratch.
SaveAlerts(ledger) ==
    [i \in DOMAIN ledger |->
        JsonObject([ledger[i] EXCEPT !.data = JsonObject(ledger[i].data)])]

\* load_alerts: json.load of the file; [] when there is no file.
LoadAlerts(doc) ==
    [i \in DOMAIN doc |->
        LET a == FromJsonObject(doc[i])
        IN  [a EXCEPT !.data = FromJsonObject(a.data)]]

(* ------------------------- web application threads --------------------- *)

\* Request threads of the threaded development server.
Threads == {1, 2}

\* A thread that is not inside a check_all pass.
IdlePass == [pc |-> "idle", pending |-> <<>>, ret |-> <<>>]

(* ------------------------------ collector ------------------------------ *)
\* wifi-collector/scanner.py.  A location is the sequence of its characters,
\* so that str.strip() is the function it is.

\* location = "Test"
DefaultLocation == <<"T", "e", "s", "t">>

Whitespace == {" ", "\t"}

RECURSIVE StripLeft(_)
StripLeft(str) ==
    IF str # <<>> /\ Head(str) \in Whitespace
    THEN StripLeft(Tail(str)) ELSE str

RECURSIVE StripRight(_)
StripRight(str) ==
    IF str # <<>> /\ str[Len(str)] \in Whitespace
    THEN StripRight(SubSeq(str, 1, Len(str) - 1)) ELSE str

\* str.strip()
Strip(str) == StripRight(StripLeft(str))

\* Values of the "location" member of a set_location request; a request
\* without the member reads as "".
RawLocations ==
    {<<>>, <<" ">>, <<" ", "\t">>, <<"L", "a", "b">>,
     <<" ", "H", "a", "l", "l", " ">>}

\* A line of the nmcli output: the number of its ':'-separated parts, its
\* SSID (a sequence of characters) and the integer its SIGNAL part parses
\* to, <<n>>, or <<>> when int() raises ValueError.
ScanLine(parts, ssid, signal) ==
    [parts |-> parts, ssid |-> ssid, signal |-> signal]

\* Outputs of `nmcli dev wifi list`; the empty one also stands for a
\* failed fetch, on which scan_wifi returns [].
ScanOutputs ==
    { <<>>,
      << ScanLine(12, <<"H">>, <<40>>), ScanLine(12, <<"G">>, <<20>>) >>,
      << ScanLine(12, <<"H">>, <<40>>), ScanLine(12, <<"-", "-">>, <<30>>),
         ScanLine(12, <<"G">>, <<20>>) >>,
      << ScanLine(5, <<"H">>, <<40>>), ScanLine(12, <<" ">>, <<10>>),
         ScanLine(12, <<"G">>, <<>>) >> }

\* The checks of the parsing loop that make it skip a line.
SkipsLine(line) ==
    \/ line.parts < 12
    \/ line.ssid = <<"-", "-">>
    \/ Strip(line.ssid) = <<>>
    \/ line.signal = <<>>

(* ----------------------- check_signal_degradation ---------------------- *)

\* Variant: a sample stamped exactly at cutoff_recent is in neither window.
RecentRows_StrictCutoff(room, ssid) ==
    {r \in BagToSet(scans) :
        r.room = room /\ r.ssid = ssid /\ r.timestamp > now - 60}

RecentRows(room, ssid) ==
    {r \in BagToSet(scans) :
        r.room = room /\ r.ssid = ssid /\ r.timestamp >= now - 60}

\* Variant: the previous window has no lower end.
PreviousRows_NoLowerBound(room, ssid) ==
    {r \in BagToSet(scans) :
        r.room = room /\ r.ssid = ssid /\ r.timestamp < now - 60}

PreviousRows(room, ssid) ==
    {r \in BagToSet(scans) :
        /\ r.room = room /\ r.ssid = ssid
        /\ r.timestamp >= now - 120 /\ r.timestamp < now - 60}

DegradationGuard(recent_avg, previous_avg) ==
    Truthy(recent_avg) /\ Truthy(previous_avg)

DegradationAlerts(room, ssid) ==
    LET recent_avg == AvgSignal(RecentRows(room, ssid))
        previous_avg == AvgSignal(PreviousRows(room, ssid))
    IN  IF DegradationGuard(recent_avg, previous_avg)
        THEN LET recent_dbm == AvgToDbm(recent_avg)
                 previous_dbm == AvgToDbm(previous_avg)
                 degradation == RatSub(recent_dbm, previous_dbm)
             IN  IF RatLess(degradation, SIGNAL_DEGRADATION_THRESHOLD)
                 THEN << Alert("signal_degradation",
                            <<"Signal degradation detected for", ssid, "in", room>>,
                            "warning",
                            [room |-> room, ssid |-> ssid,
                             previous_signal |-> Round1(previous_dbm),
                             current_signal |-> Round1(recent_dbm),
                             degradation |-> Round1(degradation)]) >>
                 ELSE <<>>
        ELSE <<>>

(* --------------------------- check_poor_signal ------------------------- *)

\* Rows of one (room, ssid) group of the last-hour query.
PoorGroupRows(room, ssid) ==
    {r \in BagToSet(scans) :
        r.room = room /\ r.ssid = ssid /\ r.timestamp >= now - 60}

\* HAVING avg_signal > 0
PoorHaving(avg_signal) == avg_signal.num > 0

\* signal_dbm < POOR_SIGNAL_THRESHOLD
IsPoor(signal_dbm) == RatLess(signal_dbm, POOR_SIGNAL_THRESHOLD)

PoorAlertOf(room, ssid) ==
    LET rows == PoorGroupRows(room, ssid)
        avg_signal == AvgSignal(rows)
    IN  IF rows # {} /\ PoorHaving(avg_signal)
           /\ IsPoor(AvgToDbm(avg_signal))
        THEN << Alert("poor_signal",
                      <<"Poor signal detected for", ssid, "in", room>>,
                      "info",
                      [room |-> room, ssid |-> ssid,
                       signal |-> Round1(AvgToDbm(avg_signal))]) >>
        ELSE <<>>

RECURSIVE PoorSignalFrom(_)
PoorSignalFrom(k) ==
    IF k > Len(PairSeq) THEN <<>>
    ELSE PoorAlertOf(PairSeq[k][1], PairSeq[k][2]) \o PoorSignalFrom(k + 1)

PoorSignalAlerts == PoorSignalFrom(1)

(* ---------------------- check_network_disappearance -------------------- *)

\* Variant: a sample stamped exactly at cutoff_old does not count.
OldPairs_StrictCutoff ==
    {<<r.room, r.ssid>> : r \in
        {x \in BagToSet(scans) :
            /\ x.timestamp > now - 120
            /\ x.timestamp < now - NETWORK_DISAPPEARANCE_MINUTES}}

\* Outer SELECT DISTINCT: pairs seen in [cutoff_old, cutoff_recent).
OldPairs ==
    {<<r.room, r.ssid>> : r \in
        {x \in BagToSet(scans) :
            /\ x.timestamp >= now - 120
            /\ x.timestamp < now - NETWORK_DISAPPEARANCE_MINUTES}}

\* Variant: a sample stamped exactly at cutoff_recent does not count.
RecentPairs_StrictCutoff ==
    {<<r.room, r.ssid>> : r \in
        {x \in BagToSet(scans) :
            x.timestamp > now - NETWORK_DISAPPEARANCE_MINUTES}}

\* Subquery: pairs seen at or after cutoff_recent.
RecentPairs ==
    {<<r.room, r.ssid>> : r \in
        {x \in BagToSet(scans) :
            x.timestamp >= now - NETWORK_DISAPPEARANCE_MINUTES}}

DisappearedPairs == {p \in OldPairs : p \notin RecentPairs}

DisappearanceAlertOf(room, ssid) ==
    Alert("network_disappeared",
          <<"Network", ssid, "not seen in", room, "for",
            NETWORK_DISAPPEARANCE_MINUTES, "minutes">>,
          "warning",
          [room |-> room, ssid |-> ssid,
           minutes_missing |-> NETWORK_DISAPPEARANCE_MINUTES])

RECURSIVE DisappearanceFrom(_)
DisappearanceFrom(k) ==
    IF k > Len(PairSeq) THEN <<>>
    ELSE (IF PairSeq[k] \in DisappearedPairs
          THEN << DisappearanceAlertOf(PairSeq[k][1], PairSeq[k][2]) >>
          ELSE <<>>) \o DisappearanceFrom(k + 1)

DisappearanceAlerts == DisappearanceFrom(1)

(* ------------------------------- check_all ----------------------------- *)

\* check_signal_degradation over every pair (used by the variant below).
RECURSIVE DegradationFrom(_)
DegradationFrom(k) ==
    IF k > Len(PairSeq) THEN <<>>
    ELSE DegradationAlerts(PairSeq[k][1], PairSeq[k][2])
         \o DegradationFrom(k + 1)

\* Variant: check_all sweeps check_signal_degradation over the pairs first.
CheckAllAlerts_DegradationSweep ==
    DegradationFrom(1) \o PoorSignalAlerts \o DisappearanceAlerts

\* alerts.extend(check_poor_signal()), then
\* alerts.extend(check_network_disappearance()).
CheckAllAlerts == PoorSignalAlerts \o DisappearanceAlerts

(* --------------------------- get_recent_alerts ------------------------- *)

\* Variant: an alert stamped exactly at the cutoff is left out.
RecentAlertFilter_Strict(alert, cutoff) == alert.timestamp > cutoff

RecentAlertFilter(alert, cutoff) == alert.timestamp >= cutoff

GetRecent(hours) ==
    SelectSeq(alerts, LAMBDA a : RecentAlertFilter(a, now - 60 * hours))

(* --------------------------- clear_old_alerts -------------------------- *)

DayArgs == {0, 1}

\* Variant: an alert stamped exactly at the cutoff is removed as well.
PruneFilter_Strict(alert, cutoff) == alert.timestamp > cutoff

PruneFilter(alert, cutoff) == alert.timestamp >= cutoff

\* The ledger clear_old_alerts(days) keeps; a day is 1440 minutes.
Pruned(days) ==
    SelectSeq(alerts, LAMBDA a : PruneFilter(a, now - 1440 * days))

(* ------------------------------ actions -------------------------------- *)

Init ==
    /\ now = 120
    /\ scans = EmptyBag
    /\ alerts = <<>>
    /\ file = <<>>
    /\ last = [op |-> "init", arg |-> NoArg, ret |-> <<>>]
    /\ passes = [t \in Threads |-> IdlePass]
    /\ collector = [location |-> DefaultLocation, pc |-> "idle",
                    lines |-> <<>>, results |-> <<>>]

\* save_to_database / import_from_csv: a row enters wifi_scans.  The runs
\* explored load the samples before the first alert is emitted.
InsertScan(ts, room, ssid, signal) ==
    /\ BagCardinality(scans) < MaxScans
    /\ alerts = <<>>
    /\ scans' = scans (+) SetToBag({Row(ts, room, ssid, signal)})
    /\ last' = [op |-> "insert", arg |-> NoArg, ret |-> <<>>]
    /\ UNCHANGED <<now, alerts, file, passes, collector>>

\* The clock advances.
Tick(t) ==
    /\ t > now
    /\ now' = t
    /\ last' = [op |-> "tick", arg |-> NoArg, ret |-> <<>>]
    /\ UNCHANGED <<scans, alerts, file, passes, collector>>

CheckSignalDegradation(room, ssid) ==
    LET new == DegradationAlerts(room, ssid)
        added == AddAlerts(alerts, new)
    IN  /\ Len(alerts) + Len(new) <= MaxAlerts
        /\ alerts' = added.ledger
        /\ file' = IF new = <<>> THEN file ELSE SaveAlerts(alerts')
        /\ last' = [op |-> "check_signal_degradation",
                    arg |-> <<room, ssid>>, ret |-> added.returned]
        /\ UNCHANGED <<now, scans, passes, collector>>

CheckPoorSignal ==
    LET new == PoorSignalAlerts
        added == AddAlerts(alerts, new)
    IN  /\ Len(alerts) + Len(new) <= MaxAlerts
        /\ alerts' = added.ledger
        /\ file' = IF new = <<>> THEN file ELSE SaveAlerts(alerts')
        /\ last' = [op |-> "check_poor_signal", arg |-> NoArg, ret |-> added.returned]
        /\ UNCHANGED <<now, scans, passes, collector>>

\* Variant: the rule deletes the samples older than its cutoff_old.
CheckNetworkDisappearance_Purging ==
    LET new == DisappearanceAlerts
        added == AddAlerts(alerts, new)
        kept == {r \in BagToSet(scans) : r.timestamp >= now - 120}
    IN  /\ Len(alerts) + Len(new) <= MaxAlerts
        /\ alerts' = added.ledger
        /\ file' = IF new = <<>> THEN file ELSE SaveAlerts(alerts')
        /\ last' = [op |-> "check_network_disappearance",
                    arg |-> NoArg, ret |-> added.returned]
        /\ scans' = [r \in kept |-> scans[r]]
        /\ UNCHANGED <<now, passes, collector>>

CheckNetworkDisappearance ==
    LET new == DisappearanceAlerts
        added == AddAlerts(alerts, new)
    IN  /\ Len(alerts) + Len(new) <= MaxAlerts
        /\ alerts' = added.ledger
        /\ file' = IF new = <<>> THEN file ELSE SaveAlerts(alerts')
        /\ last' = [op |-> "check_network_disappearance",
                    arg |-> NoArg, ret |-> added.returned]
        /\ UNCHANGED <<now, scans, passes, collector>>

\* check_all: check_poor_signal, then check_network_disappearance.
CheckAll ==
    LET new == CheckAllAlerts
        added == AddAlerts(alerts, new)
    IN  /\ Len(alerts) + Len(new) <= MaxAlerts
        /\ alerts' = added.ledger
        /\ file' = IF new = <<>> THEN file ELSE SaveAlerts(alerts')
        /\ last' = [op |-> "check_all", arg |-> NoArg, ret |-> added.returned]
        /\ UNCHANGED <<now, scans, passes, collector>>

\* Variant: the query also drops the alerts it does not return.
GetRecentAlerts_Trimming(hours) ==
    /\ alerts' = GetRecent(hours)
    /\ last' = [op |-> "get_recent_alerts", arg |-> <<hours>>,
                ret |-> GetRecent(hours)]
    /\ UNCHANGED <<now, scans, file, passes, collector>>

GetRecentAlerts(hours) ==
    /\ last' = [op |-> "get_recent_alerts", arg |-> <<hours>>,
                ret |-> GetRecent(hours)]
    /\ UNCHANGED <<now, scans, alerts, file, passes, collector>>

\* clear_old_alerts(days): the ledger is filtered and saved; nothing is
\* returned.  `dropped` records how many alerts the call removed.
ClearOldAlerts(days) ==
    /\ alerts' = Pruned(days)
    /\ file' = SaveAlerts(alerts')
    /\ last' = [op |-> "clear_old_alerts", arg |-> <<days>>, ret |-> <<>>,
                dropped |-> Len(alerts) - Len(alerts')]
    /\ UNCHANGED <<now, scans, passes, collector>>

\* The rules check_all runs, in the order it runs them.
RuleSeq == <<"check_poor_signal", "check_network_disappearance">>

\* check_all when the store query of `rule` raises (sqlite3.Error): the
\* rules before it have run and added their alerts, the exception leaves
\* check_all at once, and the caller (api_check_alerts) answers with the
\* error only.
CheckAllRaises(rule) ==
    LET new == IF rule = RuleSeq[1] THEN <<>> ELSE PoorSignalAlerts
        added == AddAlerts(alerts, new)
    IN  /\ Len(alerts) + Len(new) <= MaxAlerts
        /\ alerts' = added.ledger
        /\ file' = IF new = <<>> THEN file ELSE SaveAlerts(alerts')
        /\ last' = [op |-> "check_all_raised", arg |-> <<rule>>, ret |-> <<>>]
        /\ UNCHANGED <<now, scans, passes, collector>>

\* --- check_all as the request threads of the web application run it ---
\* app.run(threaded=True) serves every request in a thread of its own, and
\* all of them call check_all on the one module-level AlertSystem without a
\* lock.  A thread can be descheduled at each of its I/O calls: the store
\* queries and the file write of add_alert.

\* The request thread t enters check_all and runs the query of
\* check_poor_signal; the poor groups wait to be added.
PoorQuery(t) ==
    /\ passes[t].pc = "idle"
    /\ passes' = [passes EXCEPT ![t] =
            [pc |-> "check_poor_signal", pending |-> PoorSignalAlerts,
             ret |-> <<>>]]
    /\ UNCHANGED <<now, scans, alerts, file, last, collector>>

\* One add_alert of the loop of a rule: the alert is stamped, appended to
\* the shared ledger and the ledger is saved.
AddAlertStep(t) ==
    /\ passes[t].pc # "idle"
    /\ passes[t].pending # <<>>
    /\ Len(alerts) < MaxAlerts
    /\ LET alert == [Head(passes[t].pending) EXCEPT !.timestamp = now]
       IN  /\ alerts' = alerts \o <<alert>>
           /\ file' = SaveAlerts(alerts')
           /\ passes' = [passes EXCEPT
                  ![t].pending = Tail(passes[t].pending),
                  ![t].ret = passes[t].ret \o <<alert>>]
    /\ UNCHANGED <<now, scans, last, collector>>

\* check_poor_signal has returned; the query of
\* check_network_disappearance runs.
DisappearanceQuery(t) ==
    /\ passes[t].pc = "check_poor_signal"
    /\ passes[t].pending = <<>>
    /\ passes' = [passes EXCEPT
           ![t].pc = "check_network_disappearance",
           ![t].pending = DisappearanceAlerts]
    /\ UNCHANGED <<now, scans, alerts, file, last, collector>>

\* check_all returns the alerts the thread has collected.
ReturnPass(t) ==
    /\ passes[t].pc = "check_network_disappearance"
    /\ passes[t].pending = <<>>
    /\ last' = [op |-> "check_all", arg |-> NoArg, ret |-> passes[t].ret]
    /\ passes' = [passes EXCEPT ![t] = IdlePass]
    /\ UNCHANGED <<now, scans, alerts, file, collector>>

\* run_alert_checks (python alerts.py): a second AlertSystem is constructed
\* over the same file, its ledger loaded from the file, check_all runs on
\* it and every add_alert saves that ledger; the instance is then dropped.
\* The ledger of the web application's instance is not touched.
RunAlertChecks ==
    LET loaded == LoadAlerts(file)
        new == CheckAllAlerts
        added == AddAlerts(loaded, new)
    IN  /\ Len(loaded) + Len(new) <= MaxAlerts
        /\ file' = IF new = <<>> THEN file ELSE SaveAlerts(added.ledger)
        /\ last' = [op |-> "run_alert_checks", arg |-> NoArg,
                    ret |-> added.returned]
        /\ UNCHANGED <<now, scans, alerts, passes, collector>>

\* --- the collector: the scanning loop and its control server thread ---

\* scan_wifi up to the parsing loop: the rescan and the fetch of the list.
FetchOutput(output) ==
    /\ collector.pc = "idle"
    /\ collector' = [collector EXCEPT !.pc = "parsing", !.lines = output,
                                      !.results = <<>>]
    /\ UNCHANGED <<now, scans, alerts, file, last, passes>>

\* One iteration of the parsing loop: a line that passes the checks is
\* appended with the value the global `location` has at that moment.
ParseLine ==
    /\ collector.pc = "parsing"
    /\ collector.lines # <<>>
    /\ LET line == Head(collector.lines)
       IN  collector' = [collector EXCEPT
               !.lines = Tail(collector.lines),
               !.results =
                   IF SkipsLine(line) THEN collector.results
                   ELSE Append(collector.results,
                            [timestamp |-> now, room |-> collector.location,
                             ssid |-> line.ssid, signal |-> line.signal[1]])]
    /\ UNCHANGED <<now, scans, alerts, file, last, passes>>

\* scan_wifi returns its results.
ReturnScan ==
    /\ collector.pc = "parsing"
    /\ collector.lines = <<>>
    /\ last' = [op |-> "scan_wifi", arg |-> NoArg, ret |-> collector.results]
    /\ collector' = [collector EXCEPT !.pc = "idle", !.results = <<>>]
    /\ UNCHANGED <<now, scans, alerts, file, passes>>

\* set_location in the control server thread: the stripped value, when not
\* empty, becomes the location; the answer is success or a 400.
SetLocation(raw) ==
    LET new_location == Strip(raw)
    IN  /\ collector' = [collector EXCEPT !.location =
                IF new_location # <<>> THEN new_location ELSE @]
        /\ last' = [op |-> "set_location", arg |-> <<raw>>,
                    ret |-> <<new_location # <<>>>>]
        /\ UNCHANGED <<now, scans, alerts, file, passes>>

Next ==
    \/ \E ts \in TimeGrid, room \in Rooms, ssid \in Ssids :
       \E signal \in SignalsOf(ssid) : InsertScan(ts, room, ssid, signal)
    \/ \E t \in Instants : Tick(t)
    \/ \E room \in Rooms, ssid \in Ssids : CheckSignalDegradation(room, ssid)
    \/ CheckPoorSignal
    \/ CheckNetworkDisappearance
    \/ CheckAll
    \/ \E hours \in HourArgs : GetRecentAlerts(hours)

Spec == Init /\ [][Next]_vars

\* The alert system with pruning of the ledger.
NextPrune ==
    \/ Next
    \/ \E days \in DayArgs : ClearOldAlerts(days)

SpecPrune == Init /\ [][NextPrune]_vars

\* The alert system over a store whose queries may fail.
NextFail ==
    \/ Next
    \/ \E k \in DOMAIN RuleSeq : CheckAllRaises(RuleSeq[k])

SpecFail == Init /\ [][NextFail]_vars

\* The web application's AlertSystem next to the instances that
\* run_alert_checks constructs over the same file.
NextInstances ==
    \/ Next
    \/ \E days \in DayArgs : ClearOldAlerts(days)
    \/ RunAlertChecks

SpecInstances == Init /\ [][NextInstances]_vars

\* The collector process: the scanning loop of the main thread and the
\* set_location requests served by the control server thread.
NextCollector ==
    \/ \E output \in ScanOutputs : FetchOutput(output)
    \/ ParseLine
    \/ ReturnScan
    \/ \E raw \in RawLocations : SetLocation(raw)

SpecCollector == Init /\ [][NextCollector]_vars

\* The web application: samples arrive, time passes, and the request
\* threads run check_all on the shared AlertSystem.
NextThreads ==
    \/ \E ts \in TimeGrid, room \in Rooms, ssid \in Ssids :
       \E signal \in SignalsOf(ssid) : InsertScan(ts, room, ssid, signal)
    \/ \E t \in Instants : Tick(t)
    \/ \E t \in Threads : PoorQuery(t)
    \/ \E t \in Threads : AddAlertStep(t)
    \/ \E t \in Threads : DisappearanceQuery(t)
    \/ \E t \in Threads : ReturnPass(t)

SpecThreads == Init /\ [][NextThreads]_vars


(* ===================== properties of the alert rules =================== *)

Pairs == Rooms \X Ssids

\* Samples of a pair in the half-open window [lo, hi).
RowsOf(room, ssid, lo, hi) ==
    {r \in BagToSet(scans) :
        /\ r.room = room /\ r.ssid = ssid
        /\ r.timestamp >= lo /\ r.timestamp < hi}

\* Samples of a pair stamped at or after lo.
RowsSince(room, ssid, lo) ==
    {r \in BagToSet(scans) :
        r.room = room /\ r.ssid = ssid /\ r.timestamp >= lo}

CountAlerts(seq, type, room, ssid) ==
    Cardinality({i \in DOMAIN seq :
        /\ seq[i].type = type
        /\ seq[i].data.room = room
        /\ seq[i].data.ssid = ssid})

EndsWith(ledger, suffix) ==
    /\ Len(ledger) >= Len(suffix)
    /\ SubSeq(ledger, Len(ledger) - Len(suffix) + 1, Len(ledger)) = suffix

AlertKey(a) == <<a.type, a.data.room, a.data.ssid>>

Keys(seq) == [i \in DOMAIN seq |-> AlertKey(seq[i])]

\* No stored sample is stamped at or after the evaluator's clock, so that
\* "the last hour" is the same set of samples whether or not it is bounded
\* above by now.
NoneStampedFromNow == \A r \in BagToSet(scans) : r.timestamp < now

\* C1: after check_signal_degradation(room, ssid), when both the recent hour
\* [now-1h, now) and the previous hour [now-2h, now-1h) of the pair hold
\* samples, exactly one 'signal_degradation' warning has been appended iff
\* (recent mean dBm - previous mean dBm) < -10.0, and otherwise None was
\* returned; the alert carries previous, current and delta = current -
\* previous, each rounded to one decimal.  (Stated for stores in which no
\* sample is stamped at or after now.)
C1_DegradationIffDropOver10 ==
    (last.op = "check_signal_degradation" /\ NoneStampedFromNow) =>
        LET room == last.arg[1]
            ssid == last.arg[2]
            R == RowsOf(room, ssid, now - 60, now)
            P == RowsOf(room, ssid, now - 120, now - 60)
        IN  (R # {} /\ P # {}) =>
                LET cur == MeanOfConverted(R)
                    prev == MeanOfConverted(P)
                    delta == RatSub(cur, prev)
                IN  IF RatLess(delta, -10)
                    THEN /\ Len(last.ret) = 1
                         /\ EndsWith(alerts, last.ret)
                         /\ last.ret[1].type = "signal_degradation"
                         /\ last.ret[1].severity = "warning"
                         /\ last.ret[1].data.previous_signal = Round1(prev)
                         /\ last.ret[1].data.current_signal = Round1(cur)
                         /\ last.ret[1].data.degradation = Round1(delta)
                    ELSE last.ret = <<>>

\* C2: check_poor_signal emits no alert for a group whose mean dBm over the
\* last hour is >= -80.0, none for a pair without samples in the last hour,
\* and at most one 'poor_signal' alert, of severity 'info', per group.
\* (Stated for stores in which no sample is stamped at or after now.)
C2_PoorSignalOnlyBelowFloor ==
    (last.op = "check_poor_signal" /\ NoneStampedFromNow) =>
        /\ \A i \in DOMAIN last.ret :
              last.ret[i].type = "poor_signal" /\ last.ret[i].severity = "info"
        /\ \A p \in Pairs :
              LET G == RowsOf(p[1], p[2], now - 60, now)
                  n == CountAlerts(last.ret, "poor_signal", p[1], p[2])
              IN  /\ n <= 1
                  /\ G = {} => n = 0
                  /\ (G # {} /\ ~RatLess(MeanOfConverted(G), -80)) => n = 0

\* C3: check_poor_signal emits a 'poor_signal' alert for every group that has
\* a sample in the last hour and whose mean of per-measurement dBm values is
\* strictly below -80.0, dBm-scaled (<= 0) stored values included.
\* (Stated for stores in which no sample is stamped at or after now.)
C3_PoorSignalEveryPoorGroup ==
    (last.op = "check_poor_signal" /\ NoneStampedFromNow) =>
        \A p \in Pairs :
            LET G == RowsOf(p[1], p[2], now - 60, now)
            IN  (G # {} /\ RatLess(MeanOfConverted(G), -80)) =>
                    CountAlerts(last.ret, "poor_signal", p[1], p[2]) >= 1

\* After check_network_disappearance: one 'network_disappeared' warning with
\* minutes_missing = 30, appended and returned, for exactly the pairs seen
\* in [now-2h, now-30m) whose recent window (RecentOf) holds no sample.
FlagsExactly(RecentOf(_, _)) ==
    last.op = "check_network_disappearance" =>
        /\ EndsWith(alerts, last.ret)
        /\ \A i \in DOMAIN last.ret :
              /\ last.ret[i].type = "network_disappeared"
              /\ last.ret[i].severity = "warning"
              /\ last.ret[i].data.minutes_missing = 30
              /\ last.ret[i].timestamp = now
        /\ \A p \in Pairs :
              CountAlerts(last.ret, "network_disappeared", p[1], p[2])
                = IF /\ RowsOf(p[1], p[2], now - 120, now - 30) # {}
                     /\ RecentOf(p[1], p[2]) = {}
                  THEN 1 ELSE 0

RecentHalfOpen(room, ssid) == RowsOf(room, ssid, now - 30, now)

RecentUnbounded(room, ssid) == RowsSince(room, ssid, now - 30)

\* C4 as stated: the recent window is [now-30m, now).
C4_Original_RecentWindowEndsAtNow == FlagsExactly(RecentHalfOpen)

\* C4: check_network_disappearance emits exactly one 'network_disappeared'
\* warning (minutes_missing = 30) for each pair with a sample in
\* [now-2h, now-30m) and no sample stamped at or after now-30m, and no alert
\* for any other pair; a pair absent from [now-2h, now-30m) is never flagged.
C4_DisappearanceFlagsExactly == FlagsExactly(RecentUnbounded)

C4_Witness ==
    /\ last.op = "check_network_disappearance"
    /\ Len(last.ret) = 1
    /\ \E p \in Pairs :
          /\ RowsOf(p[1], p[2], now - 120, now - 30) = {}
          /\ RowsSince(p[1], p[2], now - 30) = {}
          /\ RowsSince(p[1], p[2], 0) # {}


\* check_signal_degradation(room, ssid) on a pair one of whose windows
\* (the recent one given by RecentOf) holds no sample returns None and
\* leaves the ledger, in memory and on file, as it was.
NothingOnEmptyWindow(RecentOf(_, _)) ==
    LET room == last'.arg[1]
        ssid == last'.arg[2]
    IN  ( /\ last'.op = "check_signal_degradation"
          /\ \/ RecentOf(room, ssid) = {}
             \/ RowsOf(room, ssid, now - 120, now - 60) = {} )
        => ( /\ last'.ret = <<>>
             /\ alerts' = alerts
             /\ file' = file )

RecentHourHalfOpen(room, ssid) == RowsOf(room, ssid, now - 60, now)

RecentHourUnbounded(room, ssid) == RowsSince(room, ssid, now - 60)

\* C5 as stated: the recent hour is [now-1h, now).
C5_Original_RecentHourEndsAtNow ==
    [][NothingOnEmptyWindow(RecentHourHalfOpen)]_vars

\* C5: check_signal_degradation emits nothing when either window has no
\* samples: if the pair has no sample stamped at or after now-1h, or none
\* in [now-2h, now-1h), the call returns None and the ledger (in memory and
\* on file) is unchanged.
C5_NothingOnEmptyWindow ==
    [][NothingOnEmptyWindow(RecentHourUnbounded)]_vars

\* check_signal_degradation ran on a pair that has previous-hour samples of
\* strong signal but nothing since, and on one with only recent samples.
C5_Witness ==
    /\ last.op = "check_signal_degradation"
    /\ last.ret = <<>>
    /\ RowsSince(last.arg[1], last.arg[2], now - 60) = {}
    /\ \E r \in RowsOf(last.arg[1], last.arg[2], now - 120, now - 60) :
          r.signal = 60

\* C6: in check_signal_degradation a window is undefined only when it holds
\* no sample: whenever both windows of the pair hold at least one sample the
\* threshold comparison is evaluated, so a drop of more than 10 dBm between
\* the two window means yields an alert, also when a window's stored signals
\* average 0.
C6_ZeroAverageIsDefined ==
    last.op = "check_signal_degradation" =>
        LET room == last.arg[1]
            ssid == last.arg[2]
            R == RecentRows(room, ssid)
            P == PreviousRows(room, ssid)
        IN  ( /\ R # {} /\ P # {}
              /\ RatLess(RatSub(AvgToDbm(AvgSignal(R)), AvgToDbm(AvgSignal(P))),
                         -10)
              /\ RatLess(RatSub(MeanOfConverted(R), MeanOfConverted(P)), -10) )
            => last.ret # <<>>

\* C7: the mean dBm the degradation and poor-signal rules use, as reported
\* in the alerts they emit, is the unweighted mean of the per-measurement
\* converted values (raw/2 - 100 when raw > 0, raw itself when raw <= 0) of
\* the rows the rule averaged.
C7_RuleMeanIsMeanOfConverted ==
    /\ last.op = "check_poor_signal" =>
          \A i \in DOMAIN last.ret :
              last.ret[i].data.signal =
                  Round1(MeanOfConverted(
                      PoorGroupRows(last.ret[i].data.room,
                                    last.ret[i].data.ssid)))
    /\ last.op = "check_signal_degradation" =>
          \A i \in DOMAIN last.ret :
              /\ last.ret[i].data.current_signal =
                    Round1(MeanOfConverted(RecentRows(last.arg[1], last.arg[2])))
              /\ last.ret[i].data.previous_signal =
                    Round1(MeanOfConverted(PreviousRows(last.arg[1], last.arg[2])))

\* Scenario of C8: the pair's previous-hour samples all have raw value 60,
\* its recent samples (RecentOf) all have raw value 20, and both exist; then
\* check_signal_degradation returns one 'signal_degradation' alert with the
\* given previous, current and delta values (in tenths of a dBm).
ScenarioYields(RecentOf(_, _), previous, current, delta) ==
    last.op = "check_signal_degradation" =>
        LET R == RecentOf(last.arg[1], last.arg[2])
            P == RowsOf(last.arg[1], last.arg[2], now - 120, now - 60)
        IN  ( /\ R # {} /\ \A r \in R : r.signal = 20
              /\ P # {} /\ \A r \in P : r.signal = 60 )
            => /\ Len(last.ret) = 1
               /\ EndsWith(alerts, last.ret)
               /\ last.ret[1].type = "signal_degradation"
               /\ last.ret[1].data.previous_signal = previous
               /\ last.ret[1].data.current_signal = current
               /\ last.ret[1].data.degradation = delta

\* C8 as stated: previous -70.0, current -80.0, delta -10.0.
C8_Original_CurrentMinus80 ==
    ScenarioYields(RecentHourHalfOpen, -700, -800, -100)

\* C8: for a pair whose samples all have raw value 60 in [now-2h, now-1h)
\* and all have raw value 20 from now-1h on, check_signal_degradation yields
\* one 'signal_degradation' alert with previous -70.0, current -90.0 and
\* delta -20.0.
C8_ScenarioYieldsMinus90 ==
    ScenarioYields(RecentHourUnbounded, -700, -900, -200)

C8_Witness ==
    /\ last.op = "check_signal_degradation"
    /\ Len(last.ret) = 1
    /\ last.ret[1].data.previous_signal = -700
    /\ last.ret[1].data.current_signal = -900
    /\ \A r \in RowsSince(last.arg[1], last.arg[2], now - 60) : r.signal = 20
    /\ \A r \in RowsOf(last.arg[1], last.arg[2], now - 120, now - 60) :
          r.signal = 60

\* C9: a check_all pass that immediately follows another one, with the same
\* clock reading and the same samples, emits the same (type, room, ssid)
\* alerts as the first, and the ledger grows by that number of entries
\* again: alerts already in the ledger do not suppress re-emission.
C9_NoSuppression ==
    [][ ( /\ last.op = "check_all" /\ last'.op = "check_all"
          /\ now' = now /\ scans' = scans )
        => ( /\ Keys(last'.ret) = Keys(last.ret)
             /\ Len(alerts') = Len(alerts) + Len(last.ret)
             /\ EndsWith(alerts', last'.ret) ) ]_vars

\* Two passes in succession have each emitted the same non-empty batch.
C9_Witness ==
    /\ last.op = "check_all"
    /\ Len(last.ret) >= 1
    /\ Len(alerts) = 2 * Len(last.ret)
    /\ SubSeq(alerts, 1, Len(last.ret)) = last.ret
    /\ EndsWith(alerts, last.ret)

RECURSIVE KeepNotOlderThan(_, _)
KeepNotOlderThan(seq, duration) ==
    IF seq = <<>> THEN <<>>
    ELSE (IF now - Head(seq).timestamp <= duration
          THEN <<Head(seq)>> ELSE <<>>)
         \o KeepNotOlderThan(Tail(seq), duration)

\* C10: get_recent_alerts(hours) returns exactly the ledger alerts whose age
\* (now - timestamp) is at most the duration, in append order: an alert is
\* returned for every duration >= its age and for no duration < its age.
C10_RecentRoundTrip ==
    last.op = "get_recent_alerts" =>
        LET duration == 60 * last.arg[1]
        IN  /\ last.ret = KeepNotOlderThan(alerts, duration)
            /\ \A i \in DOMAIN alerts :
                  (\E j \in DOMAIN last.ret : last.ret[j] = alerts[i])
                    <=> now - alerts[i].timestamp <= duration

\* A query whose duration equals the age of one alert, which it returns,
\* and is shorter than the age of another, which it leaves out.
C10_Witness ==
    /\ last.op = "get_recent_alerts"
    /\ \E i \in DOMAIN alerts :
          /\ now - alerts[i].timestamp = 60 * last.arg[1]
          /\ \E j \in DOMAIN last.ret : last.ret[j] = alerts[i]
    /\ \E i \in DOMAIN alerts : now - alerts[i].timestamp > 60 * last.arg[1]
    /\ Len(last.ret) < Len(alerts)

(* ============================ ledger pruning =========================== *)

\* C11: clear_old_alerts(days) at time now removes exactly the alerts with
\* timestamp < now - days from the in-memory ledger and from the file, and
\* leaves every alert with timestamp >= now - days in place, unmodified and
\* in the original relative order; a get_recent_alerts over any duration
\* evaluated afterwards returns no alert older than the prune cutoff.
C11_ClearRemovesExactlyOlder ==
    [][last'.op = "clear_old_alerts" =>
        LET cutoff == now - 1440 * last'.arg[1]
        IN  /\ alerts' = KeepNotOlderThan(alerts, 1440 * last'.arg[1])
            /\ \A i \in DOMAIN alerts :
                  (\E j \in DOMAIN alerts' : alerts'[j] = alerts[i])
                    <=> alerts[i].timestamp >= cutoff
            /\ LoadAlerts(file') = alerts'
            /\ \A hours \in HourArgs :
                  \A j \in DOMAIN GetRecent(hours)' :
                      GetRecent(hours)'[j].timestamp >= cutoff]_vars

\* A prune that removed an alert and kept one stamped exactly at the cutoff.
C11_Witness ==
    /\ last.op = "clear_old_alerts"
    /\ last.dropped >= 1
    /\ \E i \in DOMAIN alerts : alerts[i].timestamp = now - 1440 * last.arg[1]
    /\ LoadAlerts(file) = alerts

(* ============================ failing rules ============================ *)

\* The alerts of the rules of check_all other than `rule`, in rule order.
AlertsOfOtherRules(rule) ==
    (IF rule = RuleSeq[1] THEN <<>> ELSE PoorSignalAlerts)
    \o (IF rule = RuleSeq[2] THEN <<>> ELSE DisappearanceAlerts)

\* C12: within one check_all pass a failure raised by one rule does not keep
\* the other rule from being evaluated: the pass yields the alerts of the
\* rule that succeeded, appended to the ledger and handed to the caller
\* together with the reported error.
C12_RuleIsolation ==
    last.op = "check_all_raised" =>
        /\ last.ret = AlertsOfOtherRules(last.arg[1])
        /\ EndsWith(alerts, AlertsOfOtherRules(last.arg[1]))

(* ========================== overlapping passes ========================= *)

\* C13: single logical writer: on the module-level AlertSystem of the web
\* application a check_all pass runs to completion before any step of
\* another check_all pass begins, so at no time are two request threads
\* inside a pass.
C13_PassesNeverOverlap ==
    Cardinality({t \in Threads : passes[t].pc # "idle"}) <= 1

(* ======================= what check_all evaluates ====================== *)

\* The alerts a step has appended to the ledger.
Appended == SubSeq(alerts', Len(alerts) + 1, Len(alerts'))

\* C14: no invocation of check_all appends an alert of type
\* 'signal_degradation'; such an alert enters the ledger only through an
\* explicit check_signal_degradation(room, ssid) call.
C14_NoDegradationFromCheckAll ==
    [][/\ last'.op = "check_all" =>
            /\ alerts' = alerts \o last'.ret
            /\ \A i \in DOMAIN last'.ret :
                  last'.ret[i].type # "signal_degradation"
       /\ (\E i \in DOMAIN Appended :
              Appended[i].type = "signal_degradation")
            => last'.op = "check_signal_degradation"]_vars

\* check_all has run over a store on which check_signal_degradation would
\* alert for some pair, and the ledger holds no 'signal_degradation' alert.
C14_Witness ==
    /\ last.op = "check_all"
    /\ \E p \in Pairs : DegradationAlerts(p[1], p[2]) # <<>>
    /\ \A i \in DOMAIN alerts : alerts[i].type # "signal_degradation"

\* C15: check_all returns exactly the alerts it newly emitted: the returned
\* sequence is the suffix the pass appended to the ledger, the poor-signal
\* alerts first and the disappearance alerts after them.
C15_ReturnsAppendedSuffix ==
    [][last'.op = "check_all" =>
        /\ alerts' = alerts \o last'.ret
        /\ Appended = last'.ret
        /\ \E k \in 0..Len(last'.ret) :
              \A i \in DOMAIN last'.ret :
                  last'.ret[i].type =
                      IF i <= k THEN "poor_signal" ELSE "network_disappeared"]_vars

\* A pass that emitted a poor-signal alert and a disappearance alert.
C15_Witness ==
    /\ last.op = "check_all"
    /\ Len(last.ret) = 2
    /\ last.ret[1].type = "poor_signal"
    /\ last.ret[2].type = "network_disappeared"
    /\ EndsWith(alerts, last.ret)

(* ============================== the file =============================== *)

RuleOps ==
    {"check_signal_degradation", "check_poor_signal",
     "check_network_disappearance", "check_all"}

\* C16: durable append: when add_alert has returned, the file holds the
\* complete in-memory ledger, the new alert included, so that a freshly
\* constructed AlertSystem (load_alerts) obtains a ledger equal to the
\* writer's, in the same order.
C16_DurableAppend ==
    (last.op \in RuleOps /\ last.ret # <<>>) =>
        /\ LoadAlerts(file) = alerts
        /\ EndsWith(LoadAlerts(file), last.ret)

\* A rule has added an alert to a ledger that already held one.
C16_Witness ==
    /\ last.op \in RuleOps
    /\ last.ret # <<>>
    /\ Len(alerts) > Len(last.ret)
    /\ Len(LoadAlerts(file)) = Len(alerts)

(* ========================= degradation windows ========================= *)

\* The samples check_signal_degradation averages are those of the windows
\* RecentOf and [now-2h, now-1h): the two queries select exactly these rows
\* for every pair, no row is selected by both, and an emitted alert carries
\* the converted averages of exactly these rows.
WindowsAre(RecentOf(_, _)) ==
    /\ \A p \in Pairs :
          /\ RecentRows(p[1], p[2]) = RecentOf(p[1], p[2])
          /\ PreviousRows(p[1], p[2]) = RowsOf(p[1], p[2], now - 120, now - 60)
          /\ RecentRows(p[1], p[2]) \cap PreviousRows(p[1], p[2]) = {}
          /\ \A r \in BagToSet(scans) :
                r.timestamp < now - 120 =>
                    r \notin RecentRows(p[1], p[2]) \cup PreviousRows(p[1], p[2])
    /\ (last.op = "check_signal_degradation" /\ last.ret # <<>>) =>
          LET room == last.arg[1]
              ssid == last.arg[2]
          IN  /\ last.ret[1].data.current_signal =
                    Round1(AvgToDbm(AvgSignal(RecentOf(room, ssid))))
              /\ last.ret[1].data.previous_signal =
                    Round1(AvgToDbm(AvgSignal(
                        RowsOf(room, ssid, now - 120, now - 60))))

\* C17 as stated: recent = [now-1h, now), so that a sample stamped at or
\* after now contributes to neither average.
C17_Original_RecentEndsAtNow == WindowsAre(RecentHourHalfOpen)

\* C17: the degradation windows are recent = [now-1h, oo) and previous =
\* [now-2h, now-1h): every sample contributes to at most one of the two
\* averages, a sample stamped exactly now-1h belongs to recent only, a
\* sample stamped before now-2h contributes to neither, and a sample
\* stamped at or after now contributes to the recent average.
C17_WindowsOfDegradation == WindowsAre(RecentHourUnbounded)

\* An alert whose current value is the average of a sample stamped at or
\* after now, against a previous sample stamped exactly now-2h.
C17_Witness ==
    /\ last.op = "check_signal_degradation"
    /\ last.ret # <<>>
    /\ \E r \in RecentRows(last.arg[1], last.arg[2]) : r.timestamp >= now
    /\ \E r \in PreviousRows(last.arg[1], last.arg[2]) :
          r.timestamp = now - 120

(* ========================= append-only ledger ========================== *)

\* C18: the ledger is append-only and its entries are immutable: across
\* add_alert (through the rules), check_signal_degradation,
\* check_poor_signal, check_network_disappearance, check_all and
\* get_recent_alerts the previous ledger is a prefix of the new one; only
\* clear_old_alerts removes entries.
C18_AppendOnly ==
    [][last'.op # "clear_old_alerts" =>
        /\ Len(alerts') >= Len(alerts)
        /\ SubSeq(alerts', 1, Len(alerts)) = alerts
        /\ last'.op = "get_recent_alerts" => alerts' = alerts]_vars

\* A query that left out the older of two alerts of the ledger, which still
\* holds both in the order they were appended.
C18_Witness ==
    /\ last.op = "get_recent_alerts"
    /\ Len(alerts) = 2
    /\ alerts[1].timestamp < alerts[2].timestamp
    /\ last.ret = <<alerts[2]>>

(* ========================= the store is read-only ====================== *)

\* C19: rule evaluation never writes the sample store: across any call of
\* check_signal_degradation, check_poor_signal, check_network_disappearance
\* or check_all the contents of wifi_scans are unchanged; the only change
\* of state is that the returned alerts are appended to the ledger.
C19_RulesLeaveStoreUnchanged ==
    [][last'.op \in RuleOps =>
        /\ scans' = scans
        /\ now' = now
        /\ alerts' = alerts \o last'.ret]_vars

\* A disappearance check that alerted over a store which holds a sample
\* older than every window next to the one it alerted on.
C19_Witness ==
    /\ last.op = "check_network_disappearance"
    /\ last.ret # <<>>
    /\ \E r \in BagToSet(scans) : r.timestamp < now - 120
    /\ \E r \in BagToSet(scans) : r.timestamp >= now - 120

(* ===================== two instances over one file ===================== *)

\* How often the alert x occurs in the ledger seq.
Occurrences(seq, x) == Cardinality({i \in DOMAIN seq : seq[i] = x})

\* C21: no lost alerts across ledger instances: with the web application's
\* AlertSystem and the one run_alert_checks constructs over the same file,
\* every alert appended by either instance remains in the file after any
\* later add_alert by the other instance, until clear_old_alerts prunes it:
\* a step other than clear_old_alerts removes no alert from the file.
C21_NoLostAlerts ==
    [][last'.op # "clear_old_alerts" =>
        \A i \in DOMAIN LoadAlerts(file) :
            Occurrences(LoadAlerts(file'), LoadAlerts(file)[i])
                >= Occurrences(LoadAlerts(file), LoadAlerts(file)[i])]_vars

(* ===================== lifetime of a disappearance ===================== *)

\* Timestamps of the samples of a pair.
StampsOf(room, ssid) ==
    {r.timestamp : r \in {x \in BagToSet(scans) :
                              x.room = room /\ x.ssid = ssid}}

\* Timestamp of the last sample of a pair that has samples.
LastStamp(room, ssid) ==
    CHOOSE t \in StampsOf(room, ssid) :
        \A u \in StampsOf(room, ssid) : u <= t

\* C22: bounded lifetime of a disappearance: a pass of
\* check_network_disappearance at time now (alone or within check_all)
\* flags a pair whose last sample is stamped t, once, iff
\* t + 30min < now <= t + 2h, whatever earlier passes have flagged; no pass
\* with now > t + 2h flags it, and a pair without samples is never flagged.
C22_BoundedLifetime ==
    last.op \in {"check_network_disappearance", "check_all"} =>
        \A p \in Pairs :
            CountAlerts(last.ret, "network_disappeared", p[1], p[2])
              = IF StampsOf(p[1], p[2]) = {} THEN 0
                ELSE LET t == LastStamp(p[1], p[2])
                     IN  IF t + 30 < now /\ now <= t + 120 THEN 1 ELSE 0

\* A pass at now = t + 2h that flags a pair again which the ledger already
\* holds a disappearance alert for.
C22_Witness ==
    /\ last.op = "check_network_disappearance"
    /\ \E p \in Pairs :
          /\ StampsOf(p[1], p[2]) # {}
          /\ now = LastStamp(p[1], p[2]) + 120
          /\ CountAlerts(last.ret, "network_disappeared", p[1], p[2]) = 1
          /\ CountAlerts(alerts, "network_disappeared", p[1], p[2]) >= 2

(* ============================ the collector ============================ *)

\* C23: all measurements produced by one scan_wifi call carry the same room
\* value, also when set_location changes the global location while the
\* scan output is being parsed; and set_location with an empty or
\* whitespace-only value leaves the location unchanged, so the location is
\* never empty.
C23_OneRoomPerScan ==
    /\ last.op = "scan_wifi" =>
          \A i, j \in DOMAIN last.ret : last.ret[i].room = last.ret[j].room
    /\ Strip(collector.location) # <<>>

====
